---- MODULE Spec2Model ----
(***************************************************************************)
(* A model of config_struct: the RON front end (ron_parsing.rs), the code  *)
(* generator (generation.rs) and the driver (lib.rs).                      *)
(*                                                                         *)
(* Text is a sequence of pieces; a piece is a one-character string, or a   *)
(* fixed fragment of a format! template.  Document keys and string values  *)
(* are sequences of one-character pieces, so concatenation (\o) is string  *)
(* concatenation.                                                          *)
(***************************************************************************)
EXTENDS Integers, Sequences, FiniteSets, TLC

\* ------------------------------------------------------------------ bounds
\* Largest number of nodes (maps, sequences, options, leaves) of a RON
\* document handed to the parser.
MaxNodes == 4
\* Largest length of a string value.
MaxStrLen == 2

\* ----------------------------------------------------------------- helpers
RECURSIVE Concat(_)
Concat(ss) == IF ss = <<>> THEN <<>> ELSE Head(ss) \o Concat(Tail(ss))

RECURSIVE Join(_, _)
\* [String]::join
Join(ss, sep) ==
    IF ss = <<>> THEN <<>>
    ELSE IF Len(ss) = 1 THEN ss[1]
    ELSE ss[1] \o sep \o Join(Tail(ss), sep)

Contains(s, c) == \E i \in 1..Len(s) : s[i] = c

SeqsUpTo(S, n) == UNION { [1..k -> S] : k \in 0..n }

\* ------------------------------------------------------------------ floats
\* An f64 is NaN, an infinity, or the finite value m * 2^e, kept canonical:
\* m is odd, or m = 0 and e = 0.
Fin(m, e) == [cls |-> "fin", e |-> e, m |-> m]
NaN == [cls |-> "nan", e |-> 0, m |-> 0]
PosInf == [cls |-> "inf", e |-> 0, m |-> 1]
NegInf == [cls |-> "inf", e |-> 0, m |-> -1]

Mantissas == {-3, -1, 1, 3}
Exponents == {-2, -1, 0, 1, 62, 63, 64}
Floats == { Fin(m, e) : m \in Mantissas, e \in Exponents }
              \cup { Fin(0, 0), NaN, PosInf, NegInf }

Abs(n) == IF n < 0 THEN -n ELSE n

RECURSIVE Pow(_, _)
Pow(b, k) == IF k = 0 THEN 1 ELSE b * Pow(b, k - 1)

RECURSIVE BitLen(_)
BitLen(n) == IF n = 0 THEN 0 ELSE 1 + BitLen(n \div 2)

RECURSIVE Canon(_, _)
\* the canonical form of n * 2^e
Canon(n, e) ==
    IF n = 0 THEN Fin(0, 0)
    ELSE IF n % 2 = 0 THEN Canon(n \div 2, e + 1)
    ELSE Fin(n, e)

\* f64::trunc: the integer part, rounding towards zero
trunc(f) ==
    IF f.cls # "fin" \/ f.e >= 0 THEN f
    ELSE LET q == Abs(f.m) \div Pow(2, -f.e)
         IN  Canon(IF f.m < 0 THEN -q ELSE q, 0)

\* f64 ==: NaN equals nothing, itself included
FloatEq(f, g) == f.cls # "nan" /\ g.cls # "nan" /\ f = g

IsIntegral(f) == f.cls = "fin" /\ f.e >= 0

\* -2^63 <= f < 2^63
I64_BITS == 64
InI64Range(f) ==
    /\ f.cls = "fin"
    /\ \/ f.m = 0
       \/ BitLen(Abs(f.m)) + f.e <= I64_BITS - 1
       \/ f.m = -1 /\ f.e = I64_BITS - 1

\* i64 values: the integral floats in range, and i64::MAX = 2^63 - 1, which
\* is no m * 2^e of the float domain.
I64_MAX == [cls |-> "i64max", e |-> 0, m |-> 0]
I64_MIN == Fin(-1, I64_BITS - 1)
I64Values == { f \in Floats : IsIntegral(f) /\ InI64Range(f) } \cup { I64_MAX }

\* `float as i64`: the integer part of a float in range.  For a float out
\* of range a compiler since Rust 1.45 saturates, and with an older one the
\* cast is undefined behaviour: `ub` is the value the build produces.
as_i64(f, ub) ==
    IF f.cls = "fin" /\ InI64Range(f) THEN trunc(f) ELSE ub

\* ------------------------------------------------------- decimal rendering
Digit(d) == <<"0", "1", "2", "3", "4", "5", "6", "7", "8", "9">>[d + 1]

RECURSIVE NatDigits(_)
\* the decimal digits of a natural number, most significant first
NatDigits(n) == IF n < 10 THEN <<n>> ELSE Append(NatDigits(n \div 10), n % 10)

\* doubles a number given as its decimal digits: a digit carries into the
\* next exactly when it is 5 or more
Double(ds) ==
    LET n    == Len(ds)
        body == [i \in 1..n |->
                   (2 * ds[i] + (IF i < n /\ ds[i + 1] >= 5 THEN 1 ELSE 0)) % 10]
    IN  (IF ds[1] >= 5 THEN <<1>> ELSE <<>>) \o body

RECURSIVE DoubleTimes(_, _)
\* ds doubled k times; each doubling is computed before the next is begun
DoubleTimes(ds, k) ==
    IF k = 0 THEN ds
    ELSE LET d == Double(ds) IN IF Len(d) > 0 THEN DoubleTimes(d, k - 1) ELSE d

\* the decimal digits of n * 2^k
TimesPow2(n, k) == DoubleTimes(NatDigits(n), k)

\* the digits of n - 1, for n > 0 not a power of ten
Decrement(ds) ==
    LET n == Len(ds)
        z == CHOOSE i \in 1..n : ds[i] # 0 /\ \A j \in (i + 1)..n : ds[j] = 0
    IN  [i \in 1..n |-> IF i < z THEN ds[i] ELSE IF i = z THEN ds[i] - 1 ELSE 9]

DigitText(ds) == [i \in 1..Len(ds) |-> Digit(ds[i])]

RECURSIVE ZeroPad(_, _)
ZeroPad(ds, n) == IF Len(ds) >= n THEN ds ELSE ZeroPad(<<0>> \o ds, n)

\* <f64 as Display>::fmt: never an exponent; a fractional part only when
\* the value has one
float_to_string(f) ==
    IF f.cls = "nan" THEN <<"N", "a", "N">>
    ELSE IF f.cls = "inf" THEN (IF f.m < 0 THEN <<"-">> ELSE <<>>) \o <<"i", "n", "f">>
    ELSE LET sign == IF f.m < 0 THEN <<"-">> ELSE <<>>
         IN  IF f.e >= 0
             THEN sign \o DigitText(TimesPow2(Abs(f.m), f.e))
             ELSE LET k  == -f.e
                      ds == ZeroPad(NatDigits(Abs(f.m) * Pow(5, k)), k + 1)
                  IN  sign \o DigitText(SubSeq(ds, 1, Len(ds) - k))
                           \o <<".">>
                           \o DigitText(SubSeq(ds, Len(ds) - k + 1, Len(ds)))

\* <i64 as Display>::fmt
i64_to_string(v) ==
    IF v = I64_MAX
    THEN DigitText(Decrement(TimesPow2(1, I64_BITS - 1)))
    ELSE float_to_string(v)

\* ----------------------------------------------------------------- results
\* (the tag is compared before the data, the type of a value before its val)
Ok(v) == [tag |-> "Ok", data |-> v]
Err(e) == [tag |-> "Err", data |-> e]
\* a panic (assert!, unimplemented!) unwinds out of the library
Panic(why) == [tag |-> "Panic", data |-> why]

\* -------------------------------------------------------------- RON values
\* ron::value::Value
RonUnit == [type |-> "Unit", val |-> <<>>]
RonBool(b) == [type |-> "Bool", val |-> b]
RonChar(c) == [type |-> "Char", val |-> c]
RonNumber(f) == [type |-> "Number", val |-> f]
RonString(s) == [type |-> "String", val |-> s]
\* val is <<>> for None and <<v>> for Some(v)
RonOption(o) == [type |-> "Option", val |-> o]
RonSeq(vs) == [type |-> "Seq", val |-> vs]
\* val is the sequence of <<key, value>> entries in the map's iteration order
RonMap(es) == [type |-> "Map", val |-> es]

\* RawValue (value.rs is not part of the sources; the variants are those
\* that generation.rs and ron_parsing.rs name)
RawUnit == [type |-> "Unit", val |-> <<>>]
RawBool(b) == [type |-> "Bool", val |-> b]
RawChar(c) == [type |-> "Char", val |-> c]
RawI64(v) == [type |-> "I64", val |-> v]
RawF32(f) == [type |-> "F32", val |-> f]
RawF64(f) == [type |-> "F64", val |-> f]
RawString(s) == [type |-> "String", val |-> s]
RawOption(o) == [type |-> "Option", val |-> o]
RawArray(vs) == [type |-> "Array", val |-> vs]
\* RawStructValue { struct_name, fields }
RawStructValue(name, fields) == [struct_name |-> name, fields |-> fields]
RawStruct(name, fields) == [type |-> "Struct", val |-> RawStructValue(name, fields)]
RawPanic == [type |-> "panic!", val |-> <<>>]

\* the keys of the enumerated documents: three identifiers, the second of
\* which is the other two joined by the separator of the generated struct
\* names, in the order of the map (by bytes)
KeyA == RonString(<<"a">>)
KeyA__B == RonString(<<"a", "_", "_", "b">>)
KeyB == RonString(<<"b">>)
KeyList == <<KeyA, KeyA__B, KeyB>>
\* a key that is not a string
KeyNumber == RonNumber(Fin(1, 0))

\* the one-node values of the enumerated documents
DocLeaves == { RonNumber(Fin(1, 0)), RonString(<<"s">>) }

RECURSIVE ValuesOf(_), ListsOf(_), EntriesOf(_, _)
\* the values of exactly n nodes
ValuesOf(n) ==
    (IF n = 1 THEN DocLeaves ELSE {})
    \cup (IF n >= 2 THEN { RonOption(<<v>>) : v \in ValuesOf(n - 1) } ELSE {})
    \cup { RonSeq(vs) : vs \in ListsOf(n - 1) }
    \cup { RonMap(es) : es \in EntriesOf(n - 1, 1) }

\* the sequences of values of m nodes in all
ListsOf(m) ==
    IF m = 0 THEN { <<>> }
    ELSE UNION { { <<v>> \o rest : v \in ValuesOf(k), rest \in ListsOf(m - k) }
                 : k \in 1..m }

\* the map entries of m nodes in all, with keys KeyList[i], KeyList[i+1], ...
\* in that order
EntriesOf(m, i) ==
    IF m = 0 THEN { <<>> }
    ELSE UNION { { << <<KeyList[j], v>> >> \o rest :
                     v \in ValuesOf(k), rest \in EntriesOf(m - k, j + 1) }
                 : j \in i..Len(KeyList), k \in 1..m }

Docs(n) == UNION { ValuesOf(k) : k \in 1..n }

\* documents with a key that is not a string, at the top and below it
NumberKeyDocs ==
    { RonMap(<< <<KeyNumber, RonString(<<"s">>)>> >>),
      RonMap(<< <<KeyA, RonMap(<< <<KeyNumber, RonString(<<"s">>)>> >>)>> >>) }

AllDocs == Docs(MaxNodes) \cup NumberKeyDocs

\* ------------------------------------------------------------- ron_parsing
IsStringKey(k) == k.type = "String"

\* sub_struct_name_of with the key alone: the name of the parent is dropped
sub_struct_name_of_key(super_struct, super_key) == super_key

\* the name of the struct made of a map under super_key in super_struct
sub_struct_name_of(super_struct, super_key) ==
    super_struct \o <<"_", "_">> \o super_key

RECURSIVE ron_to_raw_value(_, _, _, _)
\* ub: what `float as i64` gives when the float is out of the i64 range
ron_to_raw_value(super_struct, super_key, value, ub) ==
    CASE value.type = "Unit" -> RawUnit
      [] value.type = "Bool" -> RawBool(value.val)
      [] value.type = "Char" -> RawChar(value.val)
      [] value.type = "Number" ->
            LET float == value.val
            IN  IF FloatEq(trunc(float), float)
                THEN RawI64(as_i64(float, ub))
                ELSE RawF64(float)
      [] value.type = "String" -> RawString(value.val)
      [] value.type = "Option" ->
            IF value.val = <<>> THEN RawOption(<<>>)
            ELSE LET inner == ron_to_raw_value(super_struct, super_key, value.val[1], ub)
                 IN  IF inner = RawPanic THEN RawPanic ELSE RawOption(<<inner>>)
      [] value.type = "Seq" ->
            LET vs == [i \in 1..Len(value.val) |->
                         ron_to_raw_value(super_struct, super_key, value.val[i], ub)]
            IN  IF \E i \in 1..Len(vs) : vs[i] = RawPanic
                THEN RawPanic ELSE RawArray(vs)
      [] value.type = "Map" ->
            LET sub_struct_name == sub_struct_name_of(super_struct, super_key)
                es == value.val
            IN  IF \E i \in 1..Len(es) : ~IsStringKey(es[i][1])
                THEN RawPanic      \* unimplemented!
                ELSE LET values == [i \in 1..Len(es) |->
                                      <<es[i][1].val,
                                        ron_to_raw_value(sub_struct_name, es[i][1].val,
                                                         es[i][2], ub)>>]
                     IN  IF \E i \in 1..Len(values) : values[i][2] = RawPanic
                         THEN RawPanic
                         ELSE RawStruct(sub_struct_name, values)

\* parsing::parsed_to_raw_config: every top-level entry converted as a field
\* of the root struct, the root struct's name coming from the options
parsed_to_raw_config(ron_object, struct_name, ub) ==
    LET fields == [i \in 1..Len(ron_object) |->
                     <<ron_object[i][1],
                       ron_to_raw_value(struct_name, ron_object[i][1],
                                        ron_object[i][2], ub)>>]
    IN  IF \E i \in 1..Len(fields) : fields[i][2] = RawPanic
        THEN Panic("unimplemented")
        ELSE Ok(RawStructValue(struct_name, fields))

\* a source text is what ron::de::from_str makes of it: an error, or a Value
Unparsable == [type |-> "!", val |-> <<>>]

parse_config(config_source, struct_name, ub) ==
    IF config_source = Unparsable THEN Err("DeserializationFailed")
    ELSE IF config_source.type # "Map" THEN Err("ExpectedRootStruct")
    ELSE IF \E i \in 1..Len(config_source.val) : ~IsStringKey(config_source.val[i][1])
    THEN Err("ExpectedStringKeys")
    ELSE parsed_to_raw_config(
             [i \in 1..Len(config_source.val) |->
                <<config_source.val[i][1].val, config_source.val[i][2]>>],
             struct_name, ub)

\* -------------------------------------------------------------- generation
\* the integer variants of RawValue and the Rust type each stands for
IntTypes == { "I8", "I16", "I32", "I64", "U8", "U16", "U32", "U64", "Isize", "Usize" }
IntTypeName(t) ==
    CASE t = "I8" -> "i8" [] t = "I16" -> "i16" [] t = "I32" -> "i32"
      [] t = "I64" -> "i64" [] t = "U8" -> "u8" [] t = "U16" -> "u16"
      [] t = "U32" -> "u32" [] t = "U64" -> "u64" [] t = "Isize" -> "isize"
      [] t = "Usize" -> "usize"

\* what a function gives in place of a text when assert!(all_same_type) fails
AssertFailed == <<"panicked: assertion failed: all_same_type">>

RECURSIVE type_string(_)
type_string(value) ==
    CASE value.type = "Unit" -> <<"()">>
      [] value.type = "Bool" -> <<"bool">>
      [] value.type \in IntTypes -> <<IntTypeName(value.type)>>
      [] value.type = "F32" -> <<"f32">>
      [] value.type = "F64" -> <<"f64">>
      [] value.type = "String" -> <<"Cow<'static, str>">>
      [] value.type = "Array" ->
            LET values == value.val
                types  == [i \in 1..Len(values) |-> type_string(values[i])]
                element_type ==
                    IF Len(values) > 0
                    THEN LET candidate == types[1]
                             all_same_type ==
                                 \A i \in 1..Len(values) : types[i] = candidate
                         IN  IF \E i \in 1..Len(values) : types[i] = AssertFailed
                             THEN AssertFailed
                             ELSE IF all_same_type THEN candidate ELSE AssertFailed
                    ELSE type_string(RawUnit)
            IN  IF element_type = AssertFailed THEN AssertFailed
                ELSE <<"Cow<'static, [">> \o element_type \o <<"]>">>
      [] value.type = "Struct" -> value.val.struct_name

DeclHead ==
    "#[derive(Debug, Clone, Serialize, Deserialize)]\n#[allow(non_camel_case_types)]\npub struct "
DeclOpen == " {\n"
DeclClose == "\n}\n\n"

RECURSIVE generate_struct_declarations(_, _), DeclareNested(_, _, _)
\* the output with the declarations of struct_value and of the structs
\* below it pushed onto it, or AssertFailed
generate_struct_declarations(output, struct_value) ==
    LET fields == struct_value.fields
        types  == [i \in 1..Len(fields) |-> type_string(fields[i][2])]
        field_strings ==
            [i \in 1..Len(fields) |->
                <<"    pub ">> \o fields[i][1] \o <<": ">> \o types[i] \o <<",">>]
    IN  IF \E i \in 1..Len(fields) : types[i] = AssertFailed
        THEN AssertFailed
        ELSE DeclareNested(
                 output \o <<DeclHead>> \o struct_value.struct_name \o <<DeclOpen>>
                        \o Join(field_strings, <<"\n">>) \o <<DeclClose>>,
                 fields, 1)

\* the loop over struct_value.fields.values(), from the i-th field on
DeclareNested(output, fields, i) ==
    IF output = AssertFailed \/ i > Len(fields) THEN output
    ELSE LET value == fields[i][2]
             next ==
                 CASE value.type = "Struct" ->
                        generate_struct_declarations(output, value.val)
                   [] value.type = "Array" ->
                        IF Len(value.val) > 0 /\ value.val[1].type = "Struct"
                        THEN generate_struct_declarations(output, value.val[1].val)
                        ELSE output
                   [] OTHER -> output
         IN  DeclareNested(next, fields, i + 1)

\* float_string without the test for the decimal point
float_string_bare(float) == float_to_string(float)

\* float_string appends ".0" to a rendering without a decimal point
float_string(float) ==
    LET result == float_to_string(float)
    IN  IF ~Contains(result, ".") THEN result \o <<".", "0">> ELSE result

Spaces(n) == [i \in 1..n |-> " "]

RECURSIVE value_string(_, _), struct_value_string(_, _)
value_string(value, indentation) ==
    CASE value.type = "Unit" -> <<"()">>
      [] value.type = "Bool" -> IF value.val THEN <<"true">> ELSE <<"false">>
      [] value.type \in IntTypes -> i64_to_string(value.val)
      [] value.type = "F32" -> float_string(value.val)
      [] value.type = "F64" -> float_string(value.val)
      [] value.type = "String" ->
            <<"Cow::Borrowed(", "\"">> \o value.val \o <<"\"", ")">>
      [] value.type = "Array" ->
            LET value_strings ==
                    [i \in 1..Len(value.val) |->
                        value_string(value.val[i], indentation + 4)]
            IN  <<"Cow::Borrowed(&[">> \o Join(value_strings, <<", ">>) \o <<"])">>
      [] value.type = "Struct" -> struct_value_string(value.val, indentation)

struct_value_string(value, indentation) ==
    LET values ==
            [i \in 1..Len(value.fields) |->
                Spaces(indentation + 4) \o value.fields[i][1] \o <<": ">>
                    \o value_string(value.fields[i][2], indentation + 4)
                    \o <<",\n">>]
    IN  value.struct_name \o <<" {\n">> \o Concat(values)
            \o Spaces(indentation) \o <<"}">>

RECURSIVE InGenerationDomain(_)
\* generation.rs matches on the variants above only: a tree with an Option
\* or a Char in it is no input of this generator
InGenerationDomain(value) ==
    CASE value.type = "Array" ->
            \A i \in 1..Len(value.val) : InGenerationDomain(value.val[i])
      [] value.type = "Struct" ->
            \A i \in 1..Len(value.val.fields) :
                InGenerationDomain(value.val.fields[i][2])
      [] value.type \in { "Option", "Char" } -> FALSE
      [] OTHER -> TRUE

\* ----------------------------------------------------------------- options
DynamicLoading == { "Always", "DebugOnly", "Never" }

Config == <<"C", "o", "n", "f", "i", "g">>

\* StructOptions; the struct name is the default one, or empty
StructOptions ==
    [ struct_name : { Config, <<>> },
      generate_const : BOOLEAN,
      generate_load_fns : BOOLEAN,
      dynamic_loading : DynamicLoading,
      create_dirs : BOOLEAN,
      write_only_if_changed : BOOLEAN ]

DefaultOptions ==
    [ struct_name |-> Config, generate_const |-> TRUE, generate_load_fns |-> TRUE,
      dynamic_loading |-> "DebugOnly", create_dirs |-> TRUE,
      write_only_if_changed |-> TRUE ]

IsDigit(c) == c \in { "0", "1", "2", "3", "4", "5", "6", "7", "8", "9" }

\* a text is an identifier when it is not empty and does not begin with a digit
\* (the alphabet of the documents has letters, digits and the underscore)
valid_identifier(name) == name # <<>> /\ ~IsDigit(name[1])

\* StructOptions::validate
options_validate(options) ==
    IF valid_identifier(options.struct_name) THEN Ok(<<>>) ELSE Err("StructOptions")

ToUpper(c) ==
    CASE c = "o" -> "O" [] c = "n" -> "N" [] c = "f" -> "F" [] c = "i" -> "I"
      [] c = "g" -> "G" [] c = "a" -> "A" [] c = "b" -> "B" [] OTHER -> c

\* StructOptions::real_const_name: derived from the struct name
real_const_name(options) ==
    [i \in 1..Len(options.struct_name) |-> ToUpper(options.struct_name[i])]

\* -------------------------------------------------------------- validation
RECURSIVE StructsIn(_)
\* the struct nodes at and below a value
StructsIn(value) ==
    CASE value.type = "Struct" ->
            { value.val } \cup
            UNION { StructsIn(value.val.fields[i][2]) : i \in 1..Len(value.val.fields) }
      [] value.type = "Array" ->
            UNION { StructsIn(value.val[i]) : i \in 1..Len(value.val) }
      [] value.type = "Option" ->
            UNION { StructsIn(value.val[i]) : i \in 1..Len(value.val) }
      [] OTHER -> {}

\* the fields of a struct and their types, in order
Shape(struct_value) ==
    [i \in 1..Len(struct_value.fields) |->
        <<struct_value.fields[i][1], type_string(struct_value.fields[i][2])>>]

\* validation::validate_struct: identifiers, duplicate fields, and structs of
\* one name and different shapes
validate_struct(config) ==
    LET structs == StructsIn([type |-> "Struct", val |-> config])
    IN  IF \E st \in structs :
               \/ ~valid_identifier(st.struct_name)
               \/ \E i \in 1..Len(st.fields) : ~valid_identifier(st.fields[i][1])
        THEN Err("InvalidIdentifier")
        ELSE IF \E st \in structs : \E i, j \in 1..Len(st.fields) :
                    i # j /\ st.fields[i][1] = st.fields[j][1]
        THEN Err("InvalidIdentifier")
        ELSE IF \E st, su \in structs :
                    st.struct_name = su.struct_name /\ Shape(st) # Shape(su)
        THEN Err("StructNameCollision")
        ELSE Ok(<<>>)

\* ---------------------------------------------------------------- load_fns
StaticLoadBody == " { pub fn load() -> Cow<'static, Self> { Cow::Borrowed(&"

\* load_fns::static_load_impl: load() returns the constant
static_load_impl(struct_name, const_name) ==
    <<"impl ">> \o struct_name \o <<StaticLoadBody>> \o const_name \o <<") } }\n">>

\* load_fns::dynamic_load_impl: load() parses the file again
dynamic_load_impl(format, struct_name, path) ==
    <<"impl ">> \o struct_name
        \o <<" { pub fn load() -> Cow<'static, Self> { let filepath = \"">>
        \o <<path>> \o <<"\"; Cow::Owned(">> \o <<format>> \o <<"::from_file(filepath)) } }\n">>

\* --------------------------------------------------------------------- lib
\* the formats of a build with the ron-parsing feature alone
Formats == { "Ron" }

Paths == { "config.ron", "config.txt" }
NoPath == "-"

\* Format::from_filename: by the extension
from_filename(filepath) ==
    IF filepath = "config.ron" THEN Ok("Ron") ELSE Err("UnknownInputFormat")

HEADER == "#![cfg_attr(rustfmt, rustfmt_skip)]\n#![allow(dead_code)]\n\nuse std::borrow::Cow;\n\n"

ConstHead == "pub const "

\* the source texts: one that is no RON, a root that is no struct, keys that
\* are no strings, a key that is no identifier, an array of an integer and
\* a string, and two documents that generate
DocNotStruct == RonSeq(<<>>)
DocBadKey == RonMap(<< <<RonString(<<"2">>), RonNumber(Fin(1, 0))>> >>)
DocHeterogeneous ==
    RonMap(<< <<KeyA, RonSeq(<<RonNumber(Fin(1, 0)), RonString(<<"s">>)>>)>> >>)
DocFlat == RonMap(<< <<KeyA, RonNumber(Fin(1, 0))>> >>)
DocNested == RonMap(<< <<KeyA, RonMap(<< <<KeyB, RonString(<<"s">>)>> >>)>> >>)
Sources ==
    { Unparsable, DocNotStruct, DocBadKey, DocHeterogeneous, DocFlat, DocNested }
        \cup NumberKeyDocs

\* a file that is not there
NoFile == [type |-> "NoFile", val |-> <<>>]

\* requires_const when the load mode is not looked at
requires_const_never(options) == FALSE

\* the constant is needed by the static load implementation
requires_const(options) ==
    options.generate_load_fns /\ options.dynamic_loading # "Always"

\* the definition of the constant, when there is to be one
const_definition(config, options) ==
    IF options.generate_const \/ requires_const(options)
    THEN <<ConstHead>> \o real_const_name(options) \o <<": ">>
             \o options.struct_name \o <<" = ">>
             \o struct_value_string(config, 0) \o <<";\n">>
    ELSE <<>>

\* load_fns_impl with the file path unwrapped before the match on the mode
load_fns_impl_unwrap_first(format, options, filepath) ==
    IF options.generate_load_fns
    THEN IF filepath = NoPath THEN Err("MissingFilePath")
         ELSE LET struct_name == options.struct_name
                  const_name == real_const_name(options)
                  dynamic_impl == dynamic_load_impl(format, struct_name, filepath)
                  static_impl == static_load_impl(struct_name, const_name)
              IN  CASE options.dynamic_loading = "Always" -> Ok(dynamic_impl)
                    [] options.dynamic_loading = "Never" -> Ok(static_impl)
                    [] options.dynamic_loading = "DebugOnly" ->
                          Ok(<<"\n#[cfg(debug_assertions)]\n">> \o dynamic_impl
                                 \o <<"\n\n#[cfg(not(debug_assertions))]\n">>
                                 \o static_impl \o <<"\n">>)
    ELSE Ok(<<>>)

\* the load functions, when there are to be any: filepath.ok_or(..) is
\* unwrapped with `?` by the dynamic and the hybrid implementation only
load_fns_impl(format, options, filepath) ==
    IF options.generate_load_fns
    THEN LET struct_name == options.struct_name
             const_name == real_const_name(options)
             dynamic_impl ==
                 IF filepath = NoPath THEN Err("MissingFilePath")
                 ELSE Ok(dynamic_load_impl(format, struct_name, filepath))
             static_impl == static_load_impl(struct_name, const_name)
         IN  CASE options.dynamic_loading = "Always" -> dynamic_impl
               [] options.dynamic_loading = "Never" -> Ok(static_impl)
               [] options.dynamic_loading = "DebugOnly" ->
                     IF dynamic_impl.tag # "Ok" THEN dynamic_impl
                     ELSE Ok(<<"\n#[cfg(debug_assertions)]\n">> \o dynamic_impl.data
                                 \o <<"\n\n#[cfg(not(debug_assertions))]\n">>
                                 \o static_impl \o <<"\n">>)
    ELSE Ok(<<>>)

generate_config_from_source_with_filepath(format, source, options, filepath) ==
    IF options_validate(options).tag # "Ok" THEN options_validate(options)
    ELSE LET parsed == parse_config(source, options.struct_name, I64_MAX)
         IN  IF parsed.tag # "Ok" THEN parsed
             ELSE
    LET config == [parsed.data EXCEPT !.struct_name = options.struct_name]
    IN  IF validate_struct(config).tag # "Ok" THEN validate_struct(config)
        ELSE
    LET structs == generate_struct_declarations(<<>>, config)
        impl_string == load_fns_impl(format, options, filepath)
    IN  IF structs = AssertFailed THEN Panic("assert")
        ELSE IF impl_string.tag # "Ok" THEN impl_string
        ELSE Ok(<<HEADER>> \o structs \o const_definition(config, options)
                    \o impl_string.data)

generate_config_from_source(format, source, options) ==
    generate_config_from_source_with_filepath(format, source, options, NoPath)

\* file: what std::fs::read_to_string finds at filepath
generate_config_with_format(format, filepath, file, options) ==
    IF file = NoFile THEN Err("Io")
    ELSE generate_config_from_source_with_filepath(format, file, options, filepath)

generate_config(filepath, file, options) ==
    IF from_filename(filepath).tag # "Ok" THEN from_filename(filepath)
    ELSE generate_config_with_format(from_filename(filepath).data, filepath, file, options)

\* -------------------------------------------------------------- filesystem
\* the destination: not there, there but not readable as text, or a file
Missing == [kind |-> "Missing", content |-> <<>>]
Unreadable == [kind |-> "Unreadable", content |-> <<>>]
File(text) == [kind |-> "File", content |-> text]

\* the outcomes of std::fs::write once the directory is there: written, the
\* file could not be opened, or it was opened (and truncated) and the write
\* of the content failed
WriteOutcomes == { "written", "open failed", "write failed" }

\* ensure_destination: mkdir_ok tells whether create_dir_all can make the
\* directory when it is not there
ensure_destination(dirExists, options, mkdir_ok) ==
    IF options.create_dirs /\ ~dirExists
    THEN IF mkdir_ok THEN [ret |-> Ok(<<>>), dir |-> TRUE]
                     ELSE [ret |-> Err("Io"), dir |-> dirExists]
    ELSE [ret |-> Ok(<<>>), dir |-> dirExists]

\* write_destination that takes a destination it cannot read for unchanged
write_destination_unreadable(destination, dirExists, output, options, outcome) ==
    LET should_write ==
            IF options.write_only_if_changed
            THEN IF destination.kind = "File"
                 THEN destination.content # output
                 ELSE FALSE
            ELSE TRUE
    IN  IF should_write
        THEN IF ~dirExists \/ outcome = "open failed"
             THEN [ret |-> Err("Io"), dest |-> destination, wrote |-> TRUE]
             ELSE IF outcome = "write failed"
             THEN [ret |-> Err("Io"), dest |-> File(<<>>), wrote |-> TRUE]
             ELSE [ret |-> Ok(<<>>), dest |-> File(output), wrote |-> TRUE]
        ELSE [ret |-> Ok(<<>>), dest |-> destination, wrote |-> FALSE]

write_destination(destination, dirExists, output, options, outcome) ==
    LET should_write ==
            IF options.write_only_if_changed
            THEN IF destination.kind = "File"
                 THEN destination.content # output
                 ELSE TRUE
            ELSE TRUE
    IN  IF should_write
        THEN IF ~dirExists \/ outcome = "open failed"
             THEN [ret |-> Err("Io"), dest |-> destination, wrote |-> TRUE]
             ELSE IF outcome = "write failed"
             THEN [ret |-> Err("Io"), dest |-> File(<<>>), wrote |-> TRUE]
             ELSE [ret |-> Ok(<<>>), dest |-> File(output), wrote |-> TRUE]
        ELSE [ret |-> Ok(<<>>), dest |-> destination, wrote |-> FALSE]

\* create_from that makes the directory before it looks at the output
create_from_ensure_first(output, dirExists, destination, options, mkdir_ok, outcome) ==
    LET ensured == ensure_destination(dirExists, options, mkdir_ok)
    IN  IF ensured.ret.tag # "Ok"
        THEN [ret |-> ensured.ret, dir |-> ensured.dir, dest |-> destination,
              wrote |-> FALSE]
        ELSE IF output.tag # "Ok"
        THEN [ret |-> output, dir |-> ensured.dir, dest |-> destination,
              wrote |-> FALSE]
        ELSE LET written == write_destination(destination, ensured.dir,
                                              output.data, options, outcome)
             IN  [ret |-> written.ret, dir |-> ensured.dir,
                  dest |-> written.dest, wrote |-> written.wrote]

\* the tail of create_config, create_config_with_format and
\* create_config_from_source: output is the result of the generation
create_from(output, dirExists, destination, options, mkdir_ok, outcome) ==
    IF output.tag # "Ok"
    THEN [ret |-> output, dir |-> dirExists, dest |-> destination, wrote |-> FALSE]
    ELSE LET ensured == ensure_destination(dirExists, options, mkdir_ok)
         IN  IF ensured.ret.tag # "Ok"
             THEN [ret |-> ensured.ret, dir |-> ensured.dir, dest |-> destination,
                   wrote |-> FALSE]
             ELSE LET written == write_destination(destination, ensured.dir,
                                                   output.data, options, outcome)
                  IN  [ret |-> written.ret, dir |-> ensured.dir,
                       dest |-> written.dest, wrote |-> written.wrote]

\* ------------------------------------------------------------------- state
\* A behaviour is one call of one function of the library, made once or
\* again and again with the same arguments (a build script that is run
\* again), on a filesystem the call finds as it is.
VARIABLES
    op,     \* the function called
    arg,    \* what it is called with
    ret,    \* Pending, then what the last call returned or the panic it ended in
    dir,    \* whether the parent directory of the destination is there
    dest,   \* the destination
    wrote   \* whether the last call called std::fs::write on the destination

vars == <<op, arg, ret, dir, dest, wrote>>

Pending == [tag |-> "Pending", data |-> <<>>]

Args(in, opts, path) == [input |-> in, options |-> opts, filepath |-> path]

\* the values of one node that ron::de::from_str can give
RonLeaves ==
    { RonUnit, RonBool(TRUE), RonBool(FALSE), RonChar("c"), RonOption(<<>>) }
        \cup { RonNumber(f) : f \in Floats }
        \cup { RonString(str) : str \in SeqsUpTo({ "a", "\"" }, 1) }

\* the structs that parse_config gives and generation.rs takes
ParsedConfigs ==
    { parse_config(d, Config, I64_MAX).data :
        d \in { c \in AllDocs :
                  LET parsed == parse_config(c, Config, I64_MAX)
                  IN  /\ parsed.tag = "Ok"
                      /\ InGenerationDomain([type |-> "Struct", val |-> parsed.data]) } }

\* the characters of the string values: a letter, the double quote and the
\* backslash
StringChars == { "a", "\"", "\\" }

RawLeaves ==
    { RawUnit, RawBool(TRUE), RawBool(FALSE) }
        \cup { RawI64(v) : v \in I64Values }
        \cup { RawF32(f) : f \in Floats }
        \cup { RawF64(f) : f \in Floats }
        \cup { RawString(str) : str \in SeqsUpTo(StringChars, MaxStrLen) }

PureOps ==
    { "ron_to_raw_value", "parse_config", "generate_struct_declarations",
      "value_string", "generate_config_from_source",
      "generate_config_with_format", "generate_config" }
CreateOps ==
    { "create_config_from_source", "create_config_with_format", "create_config" }
WriteOps == { "write_destination" }

\* the outputs handed to write_destination on its own
Outputs == { <<"old">>, <<"new">> }

\* the arguments of a call of each function
Calls(name) ==
    CASE name = "ron_to_raw_value" ->
            { Args(value, DefaultOptions, NoPath) : value \in RonLeaves }
      [] name = "parse_config" ->
            { Args(source, DefaultOptions, NoPath) :
                source \in AllDocs \cup { Unparsable } }
      [] name = "generate_struct_declarations" ->
            { Args(config, DefaultOptions, NoPath) : config \in ParsedConfigs }
      [] name = "value_string" ->
            { Args(value, DefaultOptions, NoPath) : value \in RawLeaves }
      [] name = "write_destination" ->
            { Args(output, options, NoPath) :
                output \in Outputs, options \in StructOptions }
      [] name \in { "generate_config_from_source", "create_config_from_source" } ->
            { Args(source, options, NoPath) :
                source \in Sources, options \in StructOptions }
      [] OTHER ->
            { Args(file, options, filepath) :
                file \in Sources \cup { NoFile }, options \in StructOptions,
                filepath \in Paths }

Init ==
    /\ op \in PureOps \cup CreateOps \cup WriteOps
    /\ arg \in Calls(op)
    /\ ret = Pending
    /\ dir \in BOOLEAN
    /\ dest \in { Missing, Unreadable, File(<<"old">>) }
    /\ dir = FALSE => dest = Missing
    /\ op \in PureOps => dir = FALSE
    /\ wrote = FALSE

\* the calls that leave the filesystem alone
Pure(name, r) ==
    /\ op = name
    /\ ret' = r
    /\ wrote' = FALSE
    /\ UNCHANGED <<op, arg, dir, dest>>

RonToRawValue ==
    \E ub \in I64Values :
        Pure("ron_to_raw_value", Ok(ron_to_raw_value(Config, KeyA.val, arg.input, ub)))

ParseConfig ==
    Pure("parse_config", parse_config(arg.input, Config, I64_MAX))

GenerateStructDeclarations ==
    LET output == generate_struct_declarations(<<>>, arg.input)
    IN  Pure("generate_struct_declarations",
             IF output = AssertFailed THEN Panic("assert") ELSE Ok(output))

ValueString ==
    Pure("value_string", Ok(value_string(arg.input, 0)))

GenerateConfigFromSource ==
    \E format \in Formats :
        Pure("generate_config_from_source",
             generate_config_from_source(format, arg.input, arg.options))

GenerateConfigWithFormat ==
    \E format \in Formats :
        Pure("generate_config_with_format",
             generate_config_with_format(format, arg.filepath, arg.input, arg.options))

GenerateConfig ==
    Pure("generate_config", generate_config(arg.filepath, arg.input, arg.options))

\* the calls that write the destination
Create(name, output) ==
    /\ op = name
    /\ \E mkdir_ok \in BOOLEAN, outcome \in WriteOutcomes :
        LET done == create_from(output, dir, dest, arg.options, mkdir_ok, outcome)
        IN  /\ ret' = done.ret
            /\ dir' = done.dir
            /\ dest' = done.dest
            /\ wrote' = done.wrote
    /\ UNCHANGED <<op, arg>>

CreateConfigFromSource ==
    \E format \in Formats :
        Create("create_config_from_source",
               generate_config_from_source(format, arg.input, arg.options))

CreateConfigWithFormat ==
    \E format \in Formats :
        Create("create_config_with_format",
               generate_config_with_format(format, arg.filepath, arg.input, arg.options))

CreateConfig ==
    Create("create_config", generate_config(arg.filepath, arg.input, arg.options))

WriteDestination ==
    /\ op = "write_destination"
    /\ \E outcome \in WriteOutcomes :
        LET written == write_destination(dest, dir, arg.input, arg.options, outcome)
        IN  /\ ret' = written.ret
            /\ dest' = written.dest
            /\ wrote' = written.wrote
    /\ UNCHANGED <<op, arg, dir>>

Next ==
    \/ RonToRawValue
    \/ ParseConfig
    \/ GenerateStructDeclarations
    \/ ValueString
    \/ GenerateConfigFromSource
    \/ GenerateConfigWithFormat
    \/ GenerateConfig
    \/ CreateConfigFromSource
    \/ CreateConfigWithFormat
    \/ CreateConfig
    \/ WriteDestination

Spec == Init /\ [][Next]_vars

\* ================================================================== claims

\* ---------------------------------------------------------------------- C1
\* everything before the load functions succeeds: the options are valid, the
\* source parses, the struct is valid and its declarations are generated
ReachesLoadFns(a) ==
    LET parsed == parse_config(a.input, a.options.struct_name, I64_MAX)
    IN  /\ options_validate(a.options).tag = "Ok"
        /\ parsed.tag = "Ok"
        /\ validate_struct(parsed.data).tag = "Ok"
        /\ generate_struct_declarations(<<>>, parsed.data) # AssertFailed

NeedsFilePath(options) ==
    options.generate_load_fns /\ options.dynamic_loading \in { "Always", "DebugOnly" }

\* C1 as stated: for any input and options, generate_config_from_source (no
\* file path) fails with MissingFilePath when load functions are generated
\* in the dynamic or the hybrid mode, and succeeds when the mode is static
\* or no load functions are generated.
C1_AnyInput ==
    (op = "generate_config_from_source" /\ ret # Pending) =>
        IF NeedsFilePath(arg.options)
        THEN ret = Err("MissingFilePath")
        ELSE ret.tag = "Ok"

\* C1 amended: the same, for the inputs and options with which everything
\* before the load functions succeeds (options validation, parsing, struct
\* validation, the struct declarations).
C1_MissingFilePath ==
    (op = "generate_config_from_source" /\ ret # Pending /\ ReachesLoadFns(arg)) =>
        IF NeedsFilePath(arg.options)
        THEN ret = Err("MissingFilePath")
        ELSE ret.tag = "Ok"

C1_Witness ==
    /\ op = "generate_config_from_source"
    /\ ReachesLoadFns(arg)
    /\ arg.options.generate_load_fns
    /\ arg.options.dynamic_loading = "DebugOnly"
    /\ ret = Err("MissingFilePath")

\* ---------------------------------------------------------------------- C2
RECURSIVE HasHeterogeneousArray(_)
\* some array at or below the value is not empty and has an element whose
\* inferred type is not that of the first element
HasHeterogeneousArray(value) ==
    CASE value.type = "Array" ->
            \/ \E i \in 1..Len(value.val) :
                   type_string(value.val[i]) # type_string(value.val[1])
            \/ \E i \in 1..Len(value.val) : HasHeterogeneousArray(value.val[i])
      [] value.type = "Struct" ->
            \E i \in 1..Len(value.val.fields) :
                HasHeterogeneousArray(value.val.fields[i][2])
      [] OTHER -> FALSE

\* C2: a tree with a non-empty array whose elements do not all have the
\* inferred type of the first makes the generation of the declarations fail
\* with a heterogeneous-array error that is returned, not with a panic.
C2_HeterogeneousArrayError ==
    (/\ op = "generate_struct_declarations"
     /\ ret # Pending
     /\ HasHeterogeneousArray([type |-> "Struct", val |-> arg.input]))
        => ret = Err("HeterogeneousArray")

\* ---------------------------------------------------------------------- C3
RECURSIVE NameAt(_, _)
\* the pieces of the output from the i-th up to the opening of the braces
NameAt(output, i) ==
    IF i > Len(output) \/ output[i] = DeclOpen THEN <<>>
    ELSE <<output[i]>> \o NameAt(output, i + 1)

\* where the output declares a struct
DeclarationsIn(output) == { i \in 1..Len(output) : output[i] = DeclHead }

\* how many times the output declares the struct of a name
TimesDeclared(output, name) ==
    Cardinality({ i \in DeclarationsIn(output) : NameAt(output, i + 1) = name })

\* the struct nodes of one name are structurally identical
SameNameSameShape(struct_value) ==
    \A st, su \in StructsIn([type |-> "Struct", val |-> struct_value]) :
        st.struct_name = su.struct_name => Shape(st) = Shape(su)

\* C3: when the struct nodes that carry one name are structurally identical,
\* the output of generate_struct_declarations declares no struct name more
\* than once.
C3_DeclaredOnce ==
    (/\ op = "generate_struct_declarations"
     /\ ret.tag = "Ok"
     /\ SameNameSameShape(arg.input))
        => \A st \in StructsIn([type |-> "Struct", val |-> arg.input]) :
               TimesDeclared(ret.data, st.struct_name) <= 1

\* ---------------------------------------------------------------------- C4
RECURSIVE NamedByPath(_, _, _)
\* every struct that the value under field f of the struct named P holds,
\* directly, as an element of an array or inside an Option, is named P__f,
\* and so on below it
NamedByPath(P, f, value) ==
    CASE value.type = "Struct" ->
            /\ value.val.struct_name = P \o <<"_", "_">> \o f
            /\ \A i \in 1..Len(value.val.fields) :
                   NamedByPath(value.val.struct_name, value.val.fields[i][1],
                               value.val.fields[i][2])
      [] value.type \in { "Array", "Option" } ->
            \A i \in 1..Len(value.val) : NamedByPath(P, f, value.val[i])
      [] OTHER -> TRUE

IsFloatValue(value) == value.type \in { "F32", "F64" }

\* an integer literal: digits, after a minus sign or not
IsIntegerLiteral(text) ==
    LET digits == IF text # <<>> /\ text[1] = "-" THEN Tail(text) ELSE text
    IN  digits # <<>> /\ \A i \in 1..Len(digits) : IsDigit(digits[i])

\* C5: the literal that value_string gives for a float has a decimal point;
\* for a float with an integral value it is an integer literal followed by
\* ".0", and a rendering that has a decimal point is given as it is.
C5_FloatLiteral ==
    (op = "value_string" /\ ret.tag = "Ok" /\ IsFloatValue(arg.input)) =>
        LET float == arg.input.val
            text  == ret.data
        IN  /\ Contains(text, ".")
            /\ ~IsIntegerLiteral(text)
            /\ IsIntegral(float) =>
                   /\ Len(text) > 2
                   /\ SubSeq(text, Len(text) - 1, Len(text)) = <<".", "0">>
                   /\ IsIntegerLiteral(SubSeq(text, 1, Len(text) - 2))
            /\ Contains(float_to_string(float), ".") => text = float_to_string(float)

\* a float of the value 2^62
C5_Witness ==
    /\ op = "value_string"
    /\ ret.tag = "Ok"
    /\ arg.input = RawF64(Fin(1, 62))
    /\ SubSeq(ret.data, Len(ret.data) - 1, Len(ret.data)) = <<".", "0">>

\* ---------------------------------------------------------------------- C6
NotALiteral == <<"not a literal">>

RECURSIVE Unescape(_)
\* the string that the body of a Rust string literal denotes; NotALiteral
\* when a quote in the body ends the literal or a backslash escapes nothing
Unescape(body) ==
    IF body = <<>> THEN <<>>
    ELSE IF body[1] = "\"" THEN NotALiteral
    ELSE IF body[1] = "\\"
    THEN IF Len(body) >= 2 /\ body[2] \in { "\\", "\"" }
         THEN LET rest == Unescape(SubSeq(body, 3, Len(body)))
              IN  IF rest = NotALiteral THEN NotALiteral ELSE <<body[2]>> \o rest
         ELSE NotALiteral
    ELSE LET rest == Unescape(Tail(body))
         IN  IF rest = NotALiteral THEN NotALiteral ELSE <<body[1]>> \o rest

\* C6: the literal that value_string gives for a string is the constructor
\* around a string literal whose body, between the two quotes, denotes the
\* string: no character of the string ends the literal.
C6_StringLiteral ==
    (op = "value_string" /\ ret.tag = "Ok" /\ arg.input.type = "String") =>
        LET text == ret.data
        IN  /\ Len(text) >= 4
            /\ SubSeq(text, 1, 2) = <<"Cow::Borrowed(", "\"">>
            /\ SubSeq(text, Len(text) - 1, Len(text)) = <<"\"", ")">>
            /\ Unescape(SubSeq(text, 3, Len(text) - 2)) = arg.input.val

\* ---------------------------------------------------------------------- C7
\* what the generation of a create_config* call gives
GenerationOf(name, a) ==
    CASE name = "create_config_from_source" ->
            generate_config_from_source("Ron", a.input, a.options)
      [] name = "create_config_with_format" ->
            generate_config_with_format("Ron", a.filepath, a.input, a.options)
      [] name = "create_config" ->
            generate_config(a.filepath, a.input, a.options)

\* C7: a create_config* call whose generation fails returns the error of
\* the generation and leaves the filesystem as it is: the directory is not
\* made and the destination is not written.
C7_FailureLeavesFilesystem ==
    [][(op \in CreateOps /\ GenerationOf(op, arg).tag = "Err") =>
           /\ ret' = GenerationOf(op, arg)
           /\ dir' = dir
           /\ dest' = dest
           /\ wrote' = FALSE]_vars

\* the file path is missing, and the directory that create_dirs asks for is
\* still not there
C7_Witness ==
    /\ op \in CreateOps
    /\ ret = Err("MissingFilePath")
    /\ arg.options.create_dirs
    /\ ~dir
    /\ dest = Missing

\* ---------------------------------------------------------------------- C8
\* C8: write_destination does not write exactly when write_only_if_changed
\* is set and the destination is read and holds the output already, and then
\* leaves it as it is; in every other case it writes, and after a call that
\* succeeds the destination holds the output (for a create_config* call,
\* the output of its generation).
C8_WriteUnlessUnchanged ==
    [][/\ op = "write_destination" =>
              LET unchanged == /\ arg.options.write_only_if_changed
                               /\ dest.kind = "File"
                               /\ dest.content = arg.input
              IN  /\ wrote' = ~unchanged
                  /\ unchanged => dest' = dest /\ ret' = Ok(<<>>)
                  /\ ret'.tag = "Ok" => dest' = File(arg.input)
       /\ (op \in CreateOps /\ ret'.tag = "Ok") =>
              dest' = File(GenerationOf(op, arg).data)]_vars

\* the destination held the output and was left alone
C8_Witness ==
    /\ op = "write_destination"
    /\ arg.options.write_only_if_changed
    /\ ret = Ok(<<>>)
    /\ ~wrote
    /\ dest = File(arg.input)

\* ---------------------------------------------------------------------- C9
\* C9: the conversion of a RON number gives an integer variant of the same
\* value when the number has no fractional part and is in the i64 range, and
\* a float variant of the number in every other case.
C9_NumberConversion ==
    (op = "ron_to_raw_value" /\ ret.tag = "Ok" /\ arg.input.type = "Number") =>
        LET float == arg.input.val
        IN  IF IsIntegral(float) /\ InI64Range(float)
            THEN ret.data = RawI64(float)
            ELSE ret.data = RawF64(float)

\* --------------------------------------------------------------------- C10
GenerateOps ==
    { "generate_config_from_source", "generate_config_with_format", "generate_config" }

HasConst(output) == Contains(output, ConstHead)
HasStaticLoad(output) == Contains(output, StaticLoadBody)

\* C10: an output with the static load implementation in it (load functions
\* in the mode Never or DebugOnly) has the definition of the constant in
\* it; the constant is left out exactly when generate_const is false and
\* the load functions are off or in the mode Always.
C10_ConstForStaticLoad ==
    (op \in GenerateOps /\ ret.tag = "Ok") =>
        LET options == arg.options
        IN  /\ HasStaticLoad(ret.data) <=>
                   /\ options.generate_load_fns
                   /\ options.dynamic_loading \in { "Never", "DebugOnly" }
            /\ HasStaticLoad(ret.data) => HasConst(ret.data)
            /\ ~HasConst(ret.data) <=>
                   /\ ~options.generate_const
                   /\ \/ ~options.generate_load_fns
                      \/ options.dynamic_loading = "Always"

\* the constant is there for the static load implementation alone
C10_Witness ==
    /\ op \in GenerateOps
    /\ ret.tag = "Ok"
    /\ ~arg.options.generate_const
    /\ arg.options.dynamic_loading = "DebugOnly"
    /\ HasStaticLoad(ret.data)
    /\ HasConst(ret.data)

\* ---------------------------------------------------------------------- C11
RECURSIVE TypeAt(_, _)
\* the pieces of the output from the i-th up to the comma that ends a field
TypeAt(output, i) ==
    IF i > Len(output) \/ output[i] = "," THEN <<>>
    ELSE <<output[i]>> \o TypeAt(output, i + 1)

\* where the output gives the type of a field of a declaration
FieldTypesIn(output) == { i \in 1..Len(output) : output[i] = ": " }

RECURSIVE ElementTypeOf(_)
\* a type without the arrays around it: the element type of the innermost
\* array, or the type itself
ElementTypeOf(type) ==
    IF Len(type) >= 2 /\ type[1] = "Cow<'static, [" /\ type[Len(type)] = "]>"
    THEN ElementTypeOf(SubSeq(type, 2, Len(type) - 1))
    ELSE type

\* the struct names in the types of the fields of the emitted declarations
StructNamesInFieldTypes(output, struct_value) ==
    { ElementTypeOf(TypeAt(output, i + 1)) : i \in FieldTypesIn(output) }
        \cap { st.struct_name :
                 st \in StructsIn([type |-> "Struct", val |-> struct_value]) }

\* C11: when generate_struct_declarations accepts a value tree, every struct
\* name in the type of a field of an emitted declaration (the type itself,
\* the element type of an array, or the element type of an array inside an
\* array) is declared in the output.
C11_FieldTypesDeclared ==
    (op = "generate_struct_declarations" /\ ret.tag = "Ok") =>
        \A name \in StructNamesInFieldTypes(ret.data, arg.input) :
            TimesDeclared(ret.data, name) >= 1

====
